---- MODULE Spec2Model ----
(***************************************************************************)
(* A model of app.py, the Streamlit script of the AI GST invoice           *)
(* generator: the two input tabs, the validation chain behind the          *)
(* "Generate GST Invoice" button, the FPDF layout, and the handling of     *)
(* the file gst_invoice.pdf in the server's working directory.             *)
(*                                                                         *)
(* Text is a sequence of one-character strings, so that the regular        *)
(* expressions, split, strip and the date formats are computed character   *)
(* by character.  A literal of the source that never needs to be taken     *)
(* apart ("Name: ", "TAX INVOICE") is one element of such a sequence.      *)
(* The two non-ASCII literals of the source are written "<bullet> " (the   *)
(* bullet and the space after it, line 111) and "<rupee>" (line 116).      *)
(* Amounts are counted in hundredths: 1000.0 is 100000.                    *)
(***************************************************************************)
EXTENDS Integers, Sequences, FiniteSets, TLC

VARIABLES
    connected,      \* the browser sessions the server is running the script for
    uploaded,       \* uploaded[s]: tab 1's file uploader holds a photo
    photo,          \* photo[s]: the values of tab 1's six widgets
    manual,         \* manual[s]: the values of tab 2's six widgets
    invoice_data,   \* invoice_data[s]: the script's dict after its last run
    pc,             \* pc[s]: where the run started by the button stands
    status,         \* status[s]: what the last run showed the user
    pdf,            \* pdf[s]: the cells placed on the run's FPDF object
    written,        \* written[s]: the run has called pdf.output
    download,       \* download[s]: the data handed to st.download_button
    files,          \* the working directory: file name -> content
    clock           \* the day datetime.now() falls on

vars == <<connected, uploaded, photo, manual, invoice_data, pc, status, pdf,
          written, download, files, clock>>

(***************************************************************************)
(* Bounds of the model.                                                    *)
(***************************************************************************)
NumSessions == 2
MaxClock == 2
MaxItemsLen == 5

Sessions == 1..NumSessions

(***************************************************************************)
(* Characters.                                                             *)
(***************************************************************************)
DigitSeq == <<"0", "1", "2", "3", "4", "5", "6", "7", "8", "9">>

UpperSeq == <<"A", "B", "C", "D", "E", "F", "G", "H", "I", "J", "K", "L", "M",
              "N", "O", "P", "Q", "R", "S", "T", "U", "V", "W", "X", "Y", "Z">>

LowerSeq == <<"a", "b", "c", "d", "e", "f", "g", "h", "i", "j", "k", "l", "m",
              "n", "o", "p", "q", "r", "s", "t", "u", "v", "w", "x", "y", "z">>

Digits == {DigitSeq[i] : i \in DOMAIN DigitSeq}

UpperLetters == {UpperSeq[i] : i \in DOMAIN UpperSeq}

\* str.strip() with no argument removes whitespace
Whitespace == {" ", "\n", "\t", "\r"}

\* re.IGNORECASE: a letter is compared in lower case
Lower(c) ==
    IF c \in UpperLetters
    THEN LowerSeq[CHOOSE i \in DOMAIN UpperSeq : UpperSeq[i] = c]
    ELSE c

DigitVal(c) == (CHOOSE i \in DOMAIN DigitSeq : DigitSeq[i] = c) - 1

(***************************************************************************)
(* The GSTIN pattern \d{2}[A-Z]{5}\d{4}[A-Z]{1}\d{1}[Z]{1}[A-Z0-9]{1},     *)
(* one character class per position.                                       *)
(***************************************************************************)
GstinPattern ==
    <<"d", "d", "AZ", "AZ", "AZ", "AZ", "AZ", "d", "d", "d", "d", "AZ", "d",
      "Z", "AZ09">>

InClass(c, class) ==
    CASE class = "d" -> c \in Digits
      [] class = "AZ" -> c \in UpperLetters
      [] class = "Z" -> c = "Z"
      [] class = "AZ09" -> c \in UpperLetters \cup Digits

\* the pattern matches the characters of s that follow the first off ones
MatchAt(s, off) ==
    /\ off + Len(GstinPattern) <= Len(s)
    /\ \A i \in DOMAIN GstinPattern : InClass(s[off + i], GstinPattern[i])

\* re.match(pattern, s): the pattern matches at the start of s
re_match(s) == MatchAt(s, 0)

\* re.search(pattern, text).group(0), or <<>> when there is no match
gst_match(text) ==
    IF \E off \in 0..Len(text) : MatchAt(text, off)
    THEN LET off == CHOOSE o \in 0..Len(text) :
                        /\ MatchAt(text, o)
                        /\ \A p \in 0..(o - 1) : ~MatchAt(text, p)
         IN  <<SubSeq(text, off + 1, off + Len(GstinPattern))>>
    ELSE <<>>

(***************************************************************************)
(* The total pattern of line 42, ignoring case: one of the keywords        *)
(* total, amount, payable; then characters that are not digits; then the   *)
(* group: digits, an optional point, digits.                               *)
(***************************************************************************)
Keywords ==
    {<<"t", "o", "t", "a", "l">>, <<"a", "m", "o", "u", "n", "t">>,
     <<"p", "a", "y", "a", "b", "l", "e">>}

KeywordAt(text, off, kw) ==
    /\ off + Len(kw) <= Len(text)
    /\ \A i \in DOMAIN kw : Lower(text[off + i]) = kw[i]

\* [^\d]* then \d+ : a keyword at off, and a digit somewhere after it
TotalMatchAt(text, off) ==
    \E kw \in Keywords :
        /\ KeywordAt(text, off, kw)
        /\ \E j \in (off + Len(kw) + 1)..Len(text) : text[j] \in Digits

\* the end of the longest run of digits that starts at from (from - 1 if none)
DigitsEnd(text, from) ==
    CHOOSE e \in (from - 1)..Len(text) :
        /\ \A j \in from..e : text[j] \in Digits
        /\ e = Len(text) \/ text[e + 1] \notin Digits

\* re.search(pattern, text, re.IGNORECASE).group(1), or <<>> when no match
total_match(text) ==
    IF \E off \in 0..Len(text) : TotalMatchAt(text, off)
    THEN LET off == CHOOSE o \in 0..Len(text) :
                        /\ TotalMatchAt(text, o)
                        /\ \A p \in 0..(o - 1) : ~TotalMatchAt(text, p)
             kw == CHOOSE k \in Keywords : KeywordAt(text, off, k)
             d == CHOOSE j \in (off + Len(kw) + 1)..Len(text) :
                      /\ text[j] \in Digits
                      /\ \A p \in (off + Len(kw) + 1)..(j - 1) :
                             text[p] \notin Digits
             e1 == DigitsEnd(text, d)
             e2 == IF e1 < Len(text) /\ text[e1 + 1] = "."
                   THEN DigitsEnd(text, e1 + 2)
                   ELSE e1
         IN  <<SubSeq(text, d, e2)>>
    ELSE <<>>

RECURSIVE NatOf(_)
\* the number a run of digits writes
NatOf(ds) ==
    IF ds = <<>> THEN 0
    ELSE 10 * NatOf(SubSeq(ds, 1, Len(ds) - 1)) + DigitVal(ds[Len(ds)])

\* float(literal) of a literal \d+\.?\d*, in hundredths (a third decimal and
\* those after it are not represented)
float(lit) ==
    LET dot == IF \E i \in DOMAIN lit : lit[i] = "."
               THEN CHOOSE i \in DOMAIN lit : lit[i] = "."
               ELSE Len(lit) + 1
        ip == SubSeq(lit, 1, dot - 1)
        fp == SubSeq(lit, dot + 1, Len(lit))
        f1 == IF Len(fp) >= 1 THEN DigitVal(fp[1]) ELSE 0
        f2 == IF Len(fp) >= 2 THEN DigitVal(fp[2]) ELSE 0
    IN  NatOf(ip) * 100 + f1 * 10 + f2

RECURSIVE NatStr(_)
\* the decimal digits of a natural number
NatStr(n) ==
    IF n < 10 THEN <<DigitSeq[n + 1]>>
    ELSE NatStr(n \div 10) \o <<DigitSeq[(n % 10) + 1]>>

\* the digits of n, padded with zeros on the left to the given width
ZeroPad(n, width) ==
    LET ds == NatStr(n)
    IN  [i \in 1..(IF width > Len(ds) THEN width - Len(ds) ELSE 0) |-> "0"] \o ds

\* f"{amount:.2f}" of an amount in hundredths
format_2f(amount) ==
    LET a == IF amount < 0 THEN 0 - amount ELSE amount
    IN  (IF amount < 0 THEN <<"-">> ELSE <<>>)
            \o NatStr(a \div 100) \o <<".">> \o ZeroPad(a % 100, 2)

(***************************************************************************)
(* The calendar behind datetime.now(): day 1 is 31 December 2025, and the  *)
(* days after it are those of January 2026.                                *)
(***************************************************************************)
DateOf(n) ==
    IF n = 1 THEN [year |-> 2025, month |-> 12, day |-> 31]
    ELSE [year |-> 2026, month |-> 1, day |-> n - 1]

\* datetime.strftime('%d-%m-%Y')
strftime_dmY(date) ==
    ZeroPad(date.day, 2) \o <<"-">> \o ZeroPad(date.month, 2) \o <<"-">>
        \o ZeroPad(date.year, 4)

\* datetime.strftime('%Y%m%d')
strftime_Ymd(date) ==
    ZeroPad(date.year, 4) \o ZeroPad(date.month, 2) \o ZeroPad(date.day, 2)

(***************************************************************************)
(* The texts of the widgets' defaults, and the texts a user or the OCR     *)
(* step supplies in this model.                                            *)
(***************************************************************************)
ShopName ==
    <<"S", "h", "o", "p", " ", "N", "a", "m", "e">>

Customer ==
    <<"C", "u", "s", "t", "o", "m", "e", "r">>

DefaultItems ==
    <<"I", "t", "e", "m", " ", "1", ":", " ", "<rupee>", "5", "0", "0",
      "\n", "I", "t", "e", "m", " ", "2", ":", " ", "<rupee>", "3", "0",
      "0">>

\* value=1000.0 of both number inputs, and min_value=1.0 of tab 2's
DefaultTotal == 100000

MinTotal == 100

\* the example of the error message of line 68
SampleGstin ==
    <<"2", "7", "A", "A", "B", "C", "C", "D", "D", "D", "E", "E", "1", "Z",
      "1">>

WellFormedGstin ==
    <<"2", "7", "A", "A", "B", "C", "D", "1", "2", "3", "4", "E", "1", "Z",
      "5">>

LongGstin == WellFormedGstin \o <<"X">>

ShortGstin == SubSeq(WellFormedGstin, 1, Len(WellFormedGstin) - 1)

BadGstin == <<"b", "a", "d">>

BuyerGstin ==
    <<"2", "9", "A", "A", "A", "C", "B", "5", "6", "7", "8", "F", "1", "Z",
      "3">>

Acme == <<"A", "c", "m", "e">>

Bob == <<"B", "o", "b">>

SpecSampleText ==
    <<"G", "S", "T", "I", "N", ":", " ", "2", "7", "A", "A", "B", "C", "C",
      "D", "D", "D", "E", "E", "1", "Z", "1", " ", "T", "o", "t", "a", "l",
      ":", " ", "4", "9", "9", ".", "5", "0">>

ZeroTotalText ==
    <<"2", "7", "A", "A", "B", "C", "D", "1", "2", "3", "4", "E", "1", "Z",
      "5", " ", "B", "a", "l", "a", "n", "c", "e", " ", "P", "A", "Y", "A",
      "B", "L", "E", ":", " ", "R", "s", " ", "0", ".", "0", "0">>

NoMatchText ==
    <<"n", "o", " ", "i", "d", "e", "n", "t", "i", "f", "i", "e", "r", "s",
      " ", "h", "e", "r", "e">>

\* what pytesseract.image_to_string returns for the photos of this model
OcrTexts == {SpecSampleText, ZeroTotalText, NoMatchText}

\* the amounts a user types into a number input
TotalChoices == {0 - 100, 0, 100, DefaultTotal}

\* the values a user gives tab 1's widgets (no min_value on the total)
PhotoValues(key) ==
    CASE key = "seller_name" -> {ShopName}
      [] key = "seller_gst" -> {WellFormedGstin, <<>>}
      [] key = "buyer_name" -> {Customer}
      [] key = "buyer_gst" -> {<<>>}
      [] key = "total_amount" -> TotalChoices \ {MinTotal}
      [] key = "items" -> {DefaultItems}

\* the values a user gives tab 2's widgets; the number input refuses an
\* amount below min_value
ManualValues(key) ==
    CASE key = "seller_name" -> {<<>>, <<" ">>, Acme}
      [] key = "seller_gst" -> {<<>>, SampleGstin, WellFormedGstin, LongGstin,
                                ShortGstin, BadGstin}
      [] key = "buyer_name" -> {<<>>, Bob}
      [] key = "buyer_gst" -> {<<>>, BuyerGstin}
      [] key = "total_amount" -> {a \in TotalChoices : a >= MinTotal}
      [] key = "items" -> {<<>>, <<"\n">>, <<"a", "\n", " ", "b">>}

Keys ==
    {"seller_name", "seller_gst", "buyer_name", "buyer_gst", "total_amount",
     "items"}

(***************************************************************************)
(* The script down to the button: invoice_data = {}, then tab 1, then      *)
(* tab 2.  Both with-blocks are executed on every run.                     *)
(***************************************************************************)
EmptyDict == <<>>

\* tab 1's widgets as they are created: the extractor's matches or the
\* fallbacks
PhotoDefaults(text) ==
    [seller_name |-> ShopName,
     seller_gst |-> IF gst_match(text) # <<>> THEN gst_match(text)[1] ELSE <<>>,
     buyer_name |-> Customer,
     buyer_gst |-> <<>>,
     total_amount |-> IF total_match(text) # <<>>
                      THEN float(total_match(text)[1])
                      ELSE DefaultTotal,
     items |-> DefaultItems]

\* tab 2's widgets as they are created
ManualDefaults ==
    [seller_name |-> <<>>, seller_gst |-> <<>>, buyer_name |-> <<>>,
     buyer_gst |-> <<>>, total_amount |-> DefaultTotal, items |-> <<>>]

\* tab 2 filled in with a well-formed invoice
FilledForm ==
    [seller_name |-> Acme, seller_gst |-> WellFormedGstin, buyer_name |-> Bob,
     buyer_gst |-> <<>>, total_amount |-> DefaultTotal,
     items |-> <<"a", "\n", " ", "b">>]

\* the contents a user leaves tab 2 with: untouched, or the well-formed
\* invoice with one field given another value
ManualForms ==
    {ManualDefaults} \cup
        UNION {{[FilledForm EXCEPT ![key] = v] : v \in ManualValues(key)} :
                   key \in Keys}

\* tab 1 as it appears for each photo
UploadedForms == {PhotoDefaults(text) : text \in OcrTexts}

\* with tab1: the six keys are assigned only if a file is uploaded
tab1(d, up, ph) ==
    IF up
    THEN [k \in DOMAIN d \cup Keys |-> IF k \in Keys THEN ph[k] ELSE d[k]]
    ELSE d

\* with tab2: the six keys are assigned, whatever d holds
tab2(d, man) ==
    [k \in DOMAIN d \cup Keys |-> IF k \in Keys THEN man[k] ELSE d[k]]

\* invoice_data when the script reaches st.button
script_inputs(up, ph, man) == tab2(tab1(EmptyDict, up, ph), man)

\* invoice_data.get(key) is truthy: the key is there and its text not empty
get_truthy(d, key) == key \in DOMAIN d /\ d[key] # <<>>

\* all([...]) of line 65
all_required(d) ==
    \A key \in {"seller_name", "seller_gst", "buyer_name", "items"} :
        get_truthy(d, key)

\* a chain that has lost its elif branch
validate_without_elif(d) ==
    IF ~all_required(d) THEN "RequiredFieldMissing" ELSE "ok"

\* the if / elif / else of lines 65-69
validate(d) ==
    IF ~all_required(d) THEN "RequiredFieldMissing"
    ELSE IF ~re_match(d["seller_gst"]) THEN "InvalidTaxId"
    ELSE "ok"

(***************************************************************************)
(* The layout: every pdf.cell call appends one cell, a line of text.       *)
(***************************************************************************)
title_cells == << <<"TAX INVOICE">> >>

date_cell(now) == <<"Invoice Date: ">> \o strftime_dmY(DateOf(now))

number_cell(now) ==
    <<"Invoice No: GST-">> \o strftime_Ymd(DateOf(now)) \o <<"-001">>

seller_cells(d) ==
    << <<"Seller Details">>,
       <<"Name: ">> \o d["seller_name"],
       <<"GSTIN: ">> \o d["seller_gst"] >>

buyer_cells(d) ==
    << <<"Buyer Details">>, <<"Name: ">> \o d["buyer_name"] >>
        \o (IF d["buyer_gst"] # <<>>
            THEN << <<"GSTIN: ">> \o d["buyer_gst"] >>
            ELSE <<>>)

RECURSIVE split(_)
\* text.split("\n"): the pieces between the line breaks, empty ones included
split(text) ==
    IF \E i \in DOMAIN text : text[i] = "\n"
    THEN LET i == CHOOSE j \in DOMAIN text :
                      /\ text[j] = "\n"
                      /\ \A p \in 1..(j - 1) : text[p] # "\n"
         IN  <<SubSeq(text, 1, i - 1)>> \o split(SubSeq(text, i + 1, Len(text)))
    ELSE <<text>>

RECURSIVE lstrip(_)
lstrip(t) ==
    IF t # <<>> /\ Head(t) \in Whitespace THEN lstrip(Tail(t)) ELSE t

RECURSIVE rstrip(_)
rstrip(t) ==
    IF t # <<>> /\ t[Len(t)] \in Whitespace
    THEN rstrip(SubSeq(t, 1, Len(t) - 1))
    ELSE t

\* a strip that trims the left side only
strip_left_only(t) == lstrip(t)

\* item.strip()
strip(t) == rstrip(lstrip(t))

RECURSIVE item_cells(_)
\* the loop of lines 109-111 over the pieces
item_cells(items) ==
    IF items = <<>> THEN <<>>
    ELSE (IF strip(Head(items)) # <<>>
          THEN << <<"<bullet> ">> \o strip(Head(items)) >>
          ELSE <<>>) \o item_cells(Tail(items))

items_cells(d) == << <<"Items">> >> \o item_cells(split(d["items"]))

total_cell(d) ==
    <<"Total Amount: ", "<rupee>">> \o format_2f(d["total_amount"])

footer_cells ==
    << <<"This is a computer-generated invoice. No signature required as per CGST Rule 46.">>,
       <<"GSTIN verified as per Govt of India format.">> >>

\* the cells of lines 78-82: the title and the date, from the first
\* datetime.now()
first_cells(now) == title_cells \o <<date_cell(now)>>

\* the cells of lines 83-122: the number, from the second datetime.now(),
\* and the blocks after it
rest_cells(d, now) ==
    <<number_cell(now)>> \o seller_cells(d) \o buyer_cells(d) \o items_cells(d)
        \o <<total_cell(d)>> \o footer_cells

pdf_file == "gst_invoice.pdf"

\* os.path.exists(pdf_file)
exists(fs) == pdf_file \in DOMAIN fs

\* the directory once pdf.output, or another writer, has stored content
store(fs, content) == [n \in DOMAIN fs \cup {pdf_file} |->
                          IF n = pdf_file THEN content ELSE fs[n]]

\* os.remove(pdf_file)
remove(fs) == [n \in DOMAIN fs \ {pdf_file} |-> fs[n]]

(***************************************************************************)
(* The state machine.  A session's script runs from top to bottom on every *)
(* interaction; st.button is true only in the run its click starts.  The   *)
(* run a click starts is cut where something outside it can take a step:   *)
(* between the two datetime.now() calls, and around each access to the     *)
(* file.                                                                   *)
(***************************************************************************)
TypeOK ==
    /\ connected \subseteq Sessions
    /\ uploaded \in [Sessions -> BOOLEAN]
    /\ pc \in [Sessions ->
                 {"idle", "line83", "output", "download", "cleanup", "remove"}]
    /\ status \in [Sessions ->
                     {"none", "RequiredFieldMissing", "InvalidTaxId",
                      "generating", "done", "exception"}]
    /\ written \in [Sessions -> BOOLEAN]
    /\ \A s \in Sessions : Len(download[s]) <= 1
    /\ DOMAIN files \subseteq {pdf_file}
    /\ clock \in 1..MaxClock

\* the state every specification starts from, but for the forms' contents
InitRun ==
    /\ uploaded = [s \in Sessions |-> FALSE]
    /\ photo = [s \in Sessions |-> <<>>]
    /\ pc = [s \in Sessions |-> "idle"]
    /\ status = [s \in Sessions |-> "none"]
    /\ pdf = [s \in Sessions |-> <<>>]
    /\ written = [s \in Sessions |-> FALSE]
    /\ download = [s \in Sessions |-> <<>>]
    /\ files = <<>>
    /\ clock = 1
    /\ invoice_data = [s \in Sessions |-> script_inputs(FALSE, <<>>, manual[s])]

\* one user, whose forms are as the script creates them
Init ==
    /\ connected = {CHOOSE s \in Sessions : TRUE}
    /\ manual = [s \in Sessions |-> ManualDefaults]
    /\ InitRun

\* a run in which st.button is false: the widgets are read, nothing is
\* shown below the button
Rerun(s, up, ph, man) ==
    /\ s \in connected
    /\ pc[s] = "idle"
    /\ uploaded' = [uploaded EXCEPT ![s] = up]
    /\ photo' = [photo EXCEPT ![s] = ph]
    /\ manual' = [manual EXCEPT ![s] = man]
    /\ invoice_data' = [invoice_data EXCEPT ![s] = script_inputs(up, ph, man)]
    /\ status' = [status EXCEPT ![s] = "none"]
    /\ pdf' = [pdf EXCEPT ![s] = <<>>]
    /\ written' = [written EXCEPT ![s] = FALSE]
    /\ download' = [download EXCEPT ![s] = <<>>]
    /\ UNCHANGED <<connected, pc, files, clock>>

\* a photo is uploaded: tab 1's widgets appear with their defaults
Upload(s) ==
    \E ph \in UploadedForms : Rerun(s, TRUE, ph, manual[s])

\* the user edits one widget of tab 1
EditPhoto(s) ==
    /\ uploaded[s]
    /\ \E key \in Keys : \E v \in PhotoValues(key) :
           Rerun(s, TRUE, [photo[s] EXCEPT ![key] = v], manual[s])

\* the user edits tab 2 (each edit is a run of its own; the runs between
\* the first edit and the last change nothing else)
EditManual(s) ==
    \E man \in ManualForms : Rerun(s, uploaded[s], photo[s], man)

\* the button is clicked: lines 26-82
Generate(s) ==
    /\ s \in connected
    /\ pc[s] = "idle"
    /\ LET d == script_inputs(uploaded[s], photo[s], manual[s])
           v == validate(d)
       IN  /\ invoice_data' = [invoice_data EXCEPT ![s] = d]
           /\ status' = [status EXCEPT ![s] = IF v = "ok" THEN "generating" ELSE v]
           /\ pc' = [pc EXCEPT ![s] = IF v = "ok" THEN "line83" ELSE "idle"]
           /\ pdf' = [pdf EXCEPT ![s] = IF v = "ok" THEN first_cells(clock) ELSE <<>>]
    /\ written' = [written EXCEPT ![s] = FALSE]
    /\ download' = [download EXCEPT ![s] = <<>>]
    /\ UNCHANGED <<connected, uploaded, photo, manual, files, clock>>

\* lines 83-122
RenderRest(s) ==
    /\ s \in connected
    /\ pc[s] = "line83"
    /\ pdf' = [pdf EXCEPT ![s] = pdf[s] \o rest_cells(invoice_data[s], clock)]
    /\ pc' = [pc EXCEPT ![s] = "output"]
    /\ UNCHANGED <<connected, uploaded, photo, manual, invoice_data, status,
                   written, download, files, clock>>

\* line 126, pdf.output(pdf_file), writes the document
Output(s) ==
    /\ s \in connected
    /\ pc[s] = "output"
    /\ files' = store(files, pdf[s])
    /\ written' = [written EXCEPT ![s] = TRUE]
    /\ pc' = [pc EXCEPT ![s] = "download"]
    /\ UNCHANGED <<connected, uploaded, photo, manual, invoice_data, status,
                   pdf, download, clock>>

\* line 126 raises (the directory is read-only, the disk is full): the file
\* is as it was, or is left created and empty; the run ends there
OutputFails(s) ==
    /\ s \in connected
    /\ pc[s] = "output"
    /\ \E fs \in {files, store(files, <<>>)} : files' = fs
    /\ written' = [written EXCEPT ![s] = TRUE]
    /\ status' = [status EXCEPT ![s] = "exception"]
    /\ pc' = [pc EXCEPT ![s] = "idle"]
    /\ UNCHANGED <<connected, uploaded, photo, manual, invoice_data, pdf,
                   download, clock>>

\* lines 129-136: the file is opened and its content, as it is now, is
\* handed to st.download_button; open raises if the file is not there
Download(s) ==
    /\ s \in connected
    /\ pc[s] = "download"
    /\ IF exists(files)
       THEN /\ download' = [download EXCEPT ![s] = <<files[pdf_file]>>]
            /\ pc' = [pc EXCEPT ![s] = "cleanup"]
            /\ UNCHANGED status
       ELSE /\ status' = [status EXCEPT ![s] = "exception"]
            /\ pc' = [pc EXCEPT ![s] = "idle"]
            /\ UNCHANGED download
    /\ UNCHANGED <<connected, uploaded, photo, manual, invoice_data, pdf,
                   written, files, clock>>

\* lines 130-136 raise for a reason of the environment's: the run ends there
DownloadFails(s) ==
    /\ s \in connected
    /\ pc[s] = "download"
    /\ status' = [status EXCEPT ![s] = "exception"]
    /\ pc' = [pc EXCEPT ![s] = "idle"]
    /\ UNCHANGED <<connected, uploaded, photo, manual, invoice_data, pdf,
                   written, download, files, clock>>

\* line 139
CheckExists(s) ==
    /\ s \in connected
    /\ pc[s] = "cleanup"
    /\ pc' = [pc EXCEPT ![s] = IF exists(files) THEN "remove" ELSE "idle"]
    /\ status' = [status EXCEPT ![s] = IF exists(files) THEN @ ELSE "done"]
    /\ UNCHANGED <<connected, uploaded, photo, manual, invoice_data, pdf,
                   written, download, files, clock>>

\* line 140: os.remove raises if the file has gone since line 139
Remove(s) ==
    /\ s \in connected
    /\ pc[s] = "remove"
    /\ files' = remove(files)
    /\ status' = [status EXCEPT ![s] = IF exists(files) THEN "done" ELSE "exception"]
    /\ pc' = [pc EXCEPT ![s] = "idle"]
    /\ UNCHANGED <<connected, uploaded, photo, manual, invoice_data, pdf,
                   written, download, clock>>

\* midnight passes
Tick ==
    /\ clock < MaxClock
    /\ clock' = clock + 1
    /\ UNCHANGED <<connected, uploaded, photo, manual, invoice_data, pc,
                   status, pdf, written, download, files>>

Next ==
    \/ Tick
    \/ \E s \in Sessions :
           \/ Upload(s)
           \/ EditPhoto(s)
           \/ EditManual(s)
           \/ Generate(s)
           \/ RenderRest(s)
           \/ Output(s)
           \/ OutputFails(s)
           \/ Download(s)
           \/ DownloadFails(s)
           \/ CheckExists(s)
           \/ Remove(s)

Spec == Init /\ [][Next]_vars

(***************************************************************************)
(* Two users at once, each with a well-formed invoice of their own in      *)
(* tab 2, and nothing failing in the environment: every step of one run    *)
(* may fall between two steps of the other.                                *)
(***************************************************************************)
InitConc ==
    /\ connected = Sessions
    /\ manual = [s \in Sessions |->
                   [FilledForm EXCEPT !["seller_name"] = Acme \o NatStr(s)]]
    /\ InitRun

\* the runs the button starts, with nothing else happening
NextRun ==
    \E s \in Sessions :
        \/ Generate(s)
        \/ RenderRest(s)
        \/ Output(s)
        \/ Download(s)
        \/ CheckExists(s)
        \/ Remove(s)

SpecConc == InitConc /\ [][NextRun]_vars

(***************************************************************************)
(* One user whose items text is any text of at most MaxItemsLen            *)
(* characters, the rest of tab 2 being well-formed; the button's run.      *)
(***************************************************************************)
ItemChars == {"a", "b", " ", "\n"}

ItemsTexts == UNION {[1..n -> ItemChars] : n \in 0..MaxItemsLen}

InitItems ==
    /\ connected = {CHOOSE s \in Sessions : TRUE}
    /\ \E text \in ItemsTexts :
           manual = [s \in Sessions |->
                       IF s \in connected
                       THEN [FilledForm EXCEPT !["items"] = text]
                       ELSE ManualDefaults]
    /\ InitRun

SpecItems == InitItems /\ [][NextRun]_vars

(***************************************************************************)
(* What the claims speak of.                                               *)
(***************************************************************************)
RequiredKeys == {"seller_name", "seller_gst", "buyer_name", "items"}

\* the button's run of session s has passed the validation chain
Passed(s) == pdf[s] # <<>>

\* the button has been clicked in session s since its last edit
Clicked(s) == status[s] # "none"

\* the positional grammar, read off the first fifteen characters of t
GrammarPrefix(t) ==
    /\ Len(t) >= 15
    /\ \A i \in {1, 2, 8, 9, 10, 11, 13} : t[i] \in Digits
    /\ \A i \in {3, 4, 5, 6, 7, 12} : t[i] \in UpperLetters
    /\ t[14] = "Z"
    /\ t[15] \in UpperLetters \cup Digits

\* t is empty or made of whitespace only
IsBlank(t) == \A i \in DOMAIN t : t[i] \in Whitespace

\* the total the user's input path supplied: tab 1's when a photo is
\* uploaded, tab 2's otherwise
SuppliedTotal(s) ==
    IF uploaded[s] THEN photo[s]["total_amount"] ELSE manual[s]["total_amount"]

\* C1: the validator accepts a seller tax id only if it is exactly 15
\* characters long and follows the positional grammar; a longer string
\* whose first 15 characters follow the grammar is rejected.
C1_ExactlyFifteen ==
    \A s \in connected :
        Passed(s) =>
            /\ Len(invoice_data[s]["seller_gst"]) = 15
            /\ GrammarPrefix(invoice_data[s]["seller_gst"])

\* C2: the sample identifier 27AABCCDDDEE1Z1 is accepted: a click with this
\* seller tax id and the other required fields filled is not answered with
\* the invalid-GSTIN error.
C2_SampleAccepted ==
    \A s \in connected :
        (/\ Clicked(s)
         /\ invoice_data[s]["seller_gst"] = SampleGstin
         /\ \A key \in RequiredKeys : invoice_data[s][key] # <<>>)
            => status[s] # "InvalidTaxId"

\* C3: a click with a required field empty or blank (whitespace only) is
\* answered with RequiredFieldMissing.
C3_BlankRejected ==
    \A s \in connected :
        (/\ Clicked(s)
         /\ \E key \in RequiredKeys : IsBlank(invoice_data[s][key]))
            => status[s] = "RequiredFieldMissing"

\* C4: a click whose input path supplied a total that is not greater than 0
\* is answered with an error (InvalidAmount unless an earlier check fails),
\* and no document is laid out with such a total.
C4_NonPositiveRejected ==
    \A s \in connected :
        /\ (Clicked(s) /\ SuppliedTotal(s) <= 0)
               => status[s] \in {"RequiredFieldMissing", "InvalidTaxId",
                                 "InvalidAmount"}
        /\ Passed(s) => invoice_data[s]["total_amount"] > 0

\* C5: when a generate run has ended, in success or in failure, the file
\* gst_invoice.pdf does not exist.
C5_FileReleased ==
    \A s \in connected :
        (pc[s] = "idle" /\ status[s] \in {"done", "exception"})
            => ~exists(files)

\* C6: with two runs interleaved, what each run hands to its download
\* button is the document laid out from its own invoice, and neither run
\* ends in an exception.
C6_CallsIndependent ==
    \A s \in connected :
        /\ download[s] # <<>> => download[s][1] = pdf[s]
        /\ status[s] # "exception"

\* C7: the invoice number is "GST-" + YYYYMMDD + "-001" for the same date
\* as the DD-MM-YYYY of the invoice date cell.
C7_NumberMatchesDate ==
    \A s \in connected :
        Len(pdf[s]) >= 3 =>
            LET date == pdf[s][2]
            IN  pdf[s][3] = <<"Invoice No: GST-">> \o SubSeq(date, 8, 11)
                                \o SubSeq(date, 5, 6) \o SubSeq(date, 2, 3)
                                \o <<"-001">>

\* the positions at which a line of text t starts
LineStarts(t) == {i \in 1..(Len(t) + 1) : i = 1 \/ t[i - 1] = "\n"}

\* the position after the last character of the line that starts at i
LineEnd(t, i) ==
    CHOOSE j \in i..(Len(t) + 1) :
        /\ j = Len(t) + 1 \/ t[j] = "\n"
        /\ \A p \in i..(j - 1) : t[p] # "\n"

\* the positions of the line starting at i that hold no whitespace
InkOf(t, i) == {p \in i..(LineEnd(t, i) - 1) : t[p] \notin Whitespace}

NonBlankStarts(t) == {i \in LineStarts(t) : InkOf(t, i) # {}}

\* the line starting at i, from its first to its last non-whitespace
\* character
Trimmed(t, i) ==
    SubSeq(t, CHOOSE p \in InkOf(t, i) : \A q \in InkOf(t, i) : p <= q,
              CHOOSE p \in InkOf(t, i) : \A q \in InkOf(t, i) : q <= p)

\* the cells between the "Items" header and the total cell of a finished
\* layout (the total cell is followed by the two footer cells)
BulletCells(cells) ==
    LET h == CHOOSE k \in DOMAIN cells : cells[k] = <<"Items">>
    IN  SubSeq(cells, h + 1, Len(cells) - 3)

\* the layout of session s has its cells up to the footer
LaidOut(s) == Len(pdf[s]) > 2

\* C8: the bulleted cells of the Items block are exactly the non-blank
\* lines of the items text, each trimmed, in their order: as many cells as
\* non-blank lines, and the k-th cell is the k-th non-blank line trimmed.
C8_ItemsRoundTrip ==
    \A s \in connected :
        LaidOut(s) =>
            LET t == invoice_data[s]["items"]
                cells == BulletCells(pdf[s])
            IN  /\ Len(cells) = Cardinality(NonBlankStarts(t))
                /\ \A i \in NonBlankStarts(t) :
                       cells[Cardinality({j \in NonBlankStarts(t) : j <= i})]
                           = <<"<bullet> ">> \o Trimmed(t, i)

\* a layout of a text with a blank line, two different non-blank lines and
\* whitespace to trim on both sides
C8_Witness ==
    \E s \in connected :
        /\ LaidOut(s)
        /\ invoice_data[s]["items"] = <<" ", "b", " ", "\n", "a">>
        /\ BulletCells(pdf[s]) = << <<"<bullet> ", "b">>, <<"<bullet> ", "a">> >>

\* the inputs pass the two checks of the chain, stated on the inputs
InputsAccepted(d) ==
    /\ \A key \in RequiredKeys : key \in DOMAIN d /\ Len(d[key]) > 0
    /\ GrammarPrefix(d["seller_gst"])

\* C9: a run whose validation fails executes no rendering step, writes no
\* file and offers no download; a run lays out, writes or offers a document
\* only after its inputs have passed both checks.
C9_ErrorsHaltBeforeRender ==
    \A s \in connected :
        /\ status[s] \in {"RequiredFieldMissing", "InvalidTaxId"}
               => /\ pc[s] = "idle"
                  /\ pdf[s] = <<>>
                  /\ ~written[s]
                  /\ download[s] = <<>>
        /\ (pc[s] # "idle" \/ pdf[s] # <<>> \/ written[s] \/ download[s] # <<>>)
               => InputsAccepted(invoice_data[s])
        /\ (Clicked(s) /\ ~InputsAccepted(invoice_data[s]))
               => status[s] \in {"RequiredFieldMissing", "InvalidTaxId"}

\* a run refused for its seller tax id, all required fields being filled,
\* while an earlier run's document is still in the directory
C9_Witness ==
    \E s \in connected :
        /\ status[s] = "InvalidTaxId"
        /\ \A key \in RequiredKeys : invoice_data[s][key] # <<>>
        /\ exists(files)

\* C10: with a photo uploaded, the invoice a click validates and renders is
\* made of tab 1's values.
C10_PhotoValuesUsed ==
    \A s \in connected :
        (uploaded[s] /\ Clicked(s)) => invoice_data[s] = photo[s]

====
